---- MODULE Spec2Model ----
(***************************************************************************)
(* The chat gateway of backend/app.py with its four providers (llm/*.py).  *)
(*                                                                         *)
(* Flask serves every request on its own thread (app.run, threaded by      *)
(* default), so a handler is a sequence of steps, one per access to the    *)
(* shared globals CHAT_SESSIONS and LLM_MODE, and a streamed response is a  *)
(* generator that is resumed once per chunk.  Text is a sequence of        *)
(* one-character strings.                                                  *)
(***************************************************************************)
EXTENDS Integers, Sequences, FiniteSets, TLC

VARIABLES
    LLM_MODE,       \* app.py:20, the process-wide mode name
    CHAT_SESSIONS,  \* app.py:17, session id -> reference of its list (0: no key)
    lists,          \* the list objects CHAT_SESSIONS and the handlers refer to
    req             \* the requests being served, one record per request slot

vars == <<LLM_MODE, CHAT_SESSIONS, lists, req>>

-----------------------------------------------------------------------------
(* Bounds of the model *)

MaxReqs == 2        \* requests served in one run of Spec
MaxSessions == 2    \* session ids (browser cookies)
MaxChoices == 2     \* entries of the "choices" array of one data frame
MaxLines == 2       \* lines (frames, body windows) one upstream response delivers

Reqs == 1..MaxReqs
Sessions == 1..MaxSessions

-----------------------------------------------------------------------------
(* Text *)

NL == "\n"
SP == " "
Whitespace == {SP, NL}

\* every sequence of at most n elements of S
SeqsUpTo(S, n) == UNION {[1..k -> S] : k \in 0..n}

RECURSIVE Concat(_)
\* "".join(chunks)
Concat(chunks) ==
    IF chunks = <<>> THEN <<>> ELSE Head(chunks) \o Concat(Tail(chunks))

Contains(text, c) == \E i \in 1..Len(text) : text[i] = c

RECURSIVE StripLeft(_)
StripLeft(s) ==
    IF s # <<>> /\ Head(s) \in Whitespace THEN StripLeft(Tail(s)) ELSE s

RECURSIVE StripRight(_)
StripRight(s) ==
    IF s # <<>> /\ s[Len(s)] \in Whitespace
    THEN StripRight(SubSeq(s, 1, Len(s) - 1))
    ELSE s

\* the prompt taken as posted, without .strip()
StripNothing(s) == s

\* str.strip(), app.py:97
Strip(s) == StripRight(StripLeft(s))

RECURSIVE SplitFrom(_, _, _)
\* str.split() with no separator: the maximal runs of non-whitespace characters
SplitFrom(s, cur, acc) ==
    IF s = <<>>
    THEN IF cur = <<>> THEN acc ELSE Append(acc, cur)
    ELSE IF Head(s) \in Whitespace
         THEN SplitFrom(Tail(s), <<>>, IF cur = <<>> THEN acc ELSE Append(acc, cur))
         ELSE SplitFrom(Tail(s), Append(cur, Head(s)), acc)

Split(s) == SplitFrom(s, <<>>, <<>>)

-----------------------------------------------------------------------------
(* Session store: messages and list objects *)

Message(role, content) == [role |-> role, content |-> content]

\* list.append on the list object ref
ListAppend(ls, ref, msg) == [ls EXCEPT ![ref] = Append(@, msg)]

\* what get_user_messages returns for session s when nothing runs in between
StoredConversation(s) ==
    IF CHAT_SESSIONS[s] = 0 THEN <<>> ELSE lists[CHAT_SESSIONS[s]]

-----------------------------------------------------------------------------
(* Mode registry *)

ModeNames == {"mock", "rag", "tinyllama", "llama3_1_8b"}

\* what a client may post to /set_mode: the four names and an unrecognized one
ModeInputs == ModeNames \cup {"gpt4"}

get_llm(mode) ==
    IF mode = "rag" THEN "RagLLM"
    ELSE IF mode = "tinyllama" THEN "TinyLlamaLLM"
    ELSE IF mode = "llama3_1_8b" THEN "Llama3_1_8bLLM"
    ELSE "MockLLM"

LocalModels == {"TinyLlamaLLM", "Llama3_1_8bLLM"}

-----------------------------------------------------------------------------
(* Providers: the pure parts *)

\* llm_mock.py:11, the text before and after the prompt
MockPrefix ==
    <<"[", "M", "o", "c", "k", "]", " ", "Y", "o", "u", " ",
      "s", "a", "i", "d", ":", " ">>

MockSuffix ==
    <<"T", "h", "i", "s", " ", "i", "s", " ", "a", " ",
      "m", "o", "c", "k", " ", "r", "e", "s", "p", "o", "n", "s", "e", ".">>

fake_answer(prompt) == MockPrefix \o prompt \o <<NL>> \o MockSuffix

\* llm_mock.py:13, fake_answer.split()
MockTokens(prompt) == Split(fake_answer(prompt))

\* yield token, without the space
MockChunkBare(token) == token

\* llm_mock.py:14, token + " "
MockChunk(token) == token \o <<SP>>

\* llm_tinyllama.py:14 and llm_llama3_1_8b.py:14
STOP_SEQUENCE == NL

\* a stream that yields the text as it came instead of cutting it at the stop
\* sequence
BeforeStopUncut(text) == text

RECURSIVE BeforeStop(_)
\* text.split(STOP_SEQUENCE)[0]: the text before the first stop sequence
BeforeStop(text) ==
    IF text = <<>> \/ Head(text) = STOP_SEQUENCE
    THEN <<>>
    ELSE <<Head(text)>> \o BeforeStop(Tail(text))

\* str(e) of the requests.RequestException the upstream call raised
ErrorDescription == <<"e", "r", "r">>

\* llm_rag.py:56
RagErrorFragment ==
    <<"[", "E", "r", "r", "o", "r", " ", "f", "e", "t", "c", "h", "i", "n", "g", " ",
      "R", "A", "G", " ", "r", "e", "s", "p", "o", "n", "s", "e", ":", " ">>
    \o ErrorDescription \o <<"]">>

-----------------------------------------------------------------------------
(* What the clients and the upstream services may send *)

\* the prompts a client posts: missing or blank, of whitespace only, a word, a
\* word inside whitespace, two words
RawPrompts ==
    {<<>>, <<SP>>, <<NL, SP>>, <<"h", "i">>, <<SP, "h", "i", NL>>, <<"h", SP, "i">>}

\* the texts an upstream delivers: empty, plain, and with the stop sequence at
\* the start, at the end and inside
Texts ==
    {<<>>, <<"a">>, <<NL>>, <<"a", NL>>, <<NL, "a">>, <<"a", NL, "b">>}

\* One line of a local model's response as response.iter_lines delivers it:
\*   kind "empty"  an empty line,          kind "done"  the line [DONE],
\*   kind "other"  a line without the "data: " prefix,
\*   kind "data"   "data: " and a payload: json "malformed" (json.loads raises
\*                 JSONDecodeError), "nonobject" (valid JSON that is no object) or
\*                 "object" with its "choices" array of texts.
Line(kind, json, choices) == [kind |-> kind, json |-> json, choices |-> choices]

Lines ==
    {Line("empty", "none", <<>>), Line("done", "none", <<>>),
     Line("other", "none", <<>>),
     Line("data", "malformed", <<>>), Line("data", "nonobject", <<>>)}
    \cup {Line("data", "object", c) : c \in SeqsUpTo(Texts, MaxChoices)}

\* the lines and body windows the upstreams deliver when several requests run
\* at once (Spec): one frame of each consequence
FewLines ==
    {Line("empty", "none", <<>>), Line("data", "malformed", <<>>),
     Line("data", "object", <<<<"a">>>>),
     Line("data", "object", <<<<"a", NL>>, <<"a">>>>)}

FewTexts == {<<>>, <<"a">>}

FewPrompts == {<<>>, <<SP>>, <<"h", "i">>}

-----------------------------------------------------------------------------
(* Requests *)

\* A request slot.  op: the handler; pc: its next step; sid: the session cookie.
\* send_message: raw (the posted prompt), prompt, user_messages (a list
\* reference), llm (the provider object's class), gen (where llm.stream is),
\* pending (the tokens or choices its loop has still to visit), nread (lines
\* read), response_text, atYield (generate is suspended at its yield), gone
\* (the client of the open response has left; over with the response).
\* set_mode: mode (the posted name).  ret: what the handler returned.
\* Kept for the properties only: selMode (LLM_MODE as line 107 read it),
\* prior (LLM_MODE when set_mode was entered), received (the texts of the
\* frames read), forwarded (the chunks generate yielded), producedBy (the
\* provider classes whose code yielded them), failed, skipped.
NoReq ==
    [op |-> "none", pc |-> "none", sid |-> 0, raw |-> <<>>, prompt |-> <<>>,
     user_messages |-> 0, llm |-> "None", gen |-> "none", pending |-> <<>>,
     nread |-> 0, response_text |-> <<>>, atYield |-> FALSE, mode |-> "none",
     ret |-> "none", selMode |-> "none", prior |-> "none", received |-> <<>>,
     forwarded |-> <<>>, producedBy |-> {}, failed |-> FALSE, skipped |-> FALSE,
     gone |-> FALSE]

\* slots are taken in order
Free(r) ==
    /\ req[r].op = "none"
    /\ IF r = 1 THEN TRUE ELSE req[r - 1].op # "none"

\* ensure_session_id, app.py:25-28: a client without a cookie is issued a new
\* session id, so the ids in use are 1..n and a request carries one of them or
\* the next
KnownSession(s) ==
    /\ s \in Sessions
    /\ IF s = 1 THEN TRUE ELSE \E q \in Reqs : req[q].sid >= s - 1

Init ==
    /\ LLM_MODE = "mock"
    /\ CHAT_SESSIONS = [s \in Sessions |-> 0]
    /\ lists = <<>>
    /\ req = [r \in Reqs |-> NoReq]

\* a later moment of the process: some mode has been selected
InitRelay ==
    /\ LLM_MODE \in ModeNames
    /\ CHAT_SESSIONS = [s \in Sessions |-> 0]
    /\ lists = <<>>
    /\ req = [r \in Reqs |-> NoReq]

-----------------------------------------------------------------------------
(* Handlers of app.py *)

\* GET /, app.py:49-54: index calls get_user_messages
index(r, s) ==
    /\ Free(r)
    /\ KnownSession(s)
    /\ req' = [req EXCEPT ![r] = [NoReq EXCEPT !.op = "index", !.pc = "gum_check",
                                               !.sid = s]]
    /\ UNCHANGED <<LLM_MODE, CHAT_SESSIONS, lists>>

\* a set_mode that keeps the name with its own request and leaves the
\* process's LLM_MODE as it is
set_mode_unshared(r, mode) ==
    /\ Free(r)
    /\ req' = [req EXCEPT ![r] = [NoReq EXCEPT !.op = "set_mode", !.pc = "sm_return",
                                               !.mode = mode, !.prior = LLM_MODE]]
    /\ UNCHANGED <<LLM_MODE, CHAT_SESSIONS, lists>>

\* POST /set_mode, app.py:71-73
set_mode(r, mode) ==
    /\ Free(r)
    /\ LLM_MODE' = IF mode \in ModeNames THEN mode ELSE LLM_MODE
    /\ req' = [req EXCEPT ![r] = [NoReq EXCEPT !.op = "set_mode", !.pc = "sm_return",
                                               !.mode = mode, !.prior = LLM_MODE]]
    /\ UNCHANGED <<CHAT_SESSIONS, lists>>

\* app.py:75, jsonify({"status": "ok", "mode": LLM_MODE})
set_mode_return(r) ==
    /\ req[r].pc = "sm_return"
    /\ req' = [req EXCEPT ![r].pc = "done", ![r].ret = LLM_MODE]
    /\ UNCHANGED <<LLM_MODE, CHAT_SESSIONS, lists>>

\* clear_chat without the assignment of line 83
clear_chat_keeps(r, s) ==
    /\ Free(r)
    /\ KnownSession(s)
    /\ req' = [req EXCEPT ![r] = [NoReq EXCEPT !.op = "clear_chat", !.pc = "done",
                                               !.sid = s, !.ret = "cleared"]]
    /\ UNCHANGED <<LLM_MODE, CHAT_SESSIONS, lists>>

\* a clear_chat that empties the store, CHAT_SESSIONS.clear(), before it
\* binds the session's new list
clear_chat_everyone(r, s) ==
    /\ Free(r)
    /\ KnownSession(s)
    /\ lists' = Append(lists, <<>>)
    /\ CHAT_SESSIONS' = [t \in Sessions |-> IF t = s THEN Len(lists) + 1 ELSE 0]
    /\ req' = [req EXCEPT ![r] = [NoReq EXCEPT !.op = "clear_chat", !.pc = "done",
                                               !.sid = s, !.ret = "cleared"]]
    /\ UNCHANGED LLM_MODE

\* POST /clear_chat, app.py:82-87: CHAT_SESSIONS[sid] = [] binds a new list
clear_chat(r, s) ==
    /\ Free(r)
    /\ KnownSession(s)
    /\ lists' = Append(lists, <<>>)
    /\ CHAT_SESSIONS' = [CHAT_SESSIONS EXCEPT ![s] = Len(lists) + 1]
    /\ req' = [req EXCEPT ![r] = [NoReq EXCEPT !.op = "clear_chat", !.pc = "done",
                                               !.sid = s, !.ret = "cleared"]]
    /\ UNCHANGED LLM_MODE

\* POST /send_message, app.py:96-98: strip the prompt, call get_user_messages
send_message(r, s, raw) ==
    /\ Free(r)
    /\ KnownSession(s)
    /\ req' = [req EXCEPT ![r] = [NoReq EXCEPT !.op = "send_message",
                                               !.pc = "gum_check", !.sid = s,
                                               !.raw = raw, !.prompt = Strip(raw)]]
    /\ UNCHANGED <<LLM_MODE, CHAT_SESSIONS, lists>>

\* get_user_messages, app.py:32: if sid not in CHAT_SESSIONS
get_user_messages_check(r) ==
    /\ req[r].pc = "gum_check"
    /\ req' = [req EXCEPT ![r].pc =
                   IF CHAT_SESSIONS[req[r].sid] = 0 THEN "gum_create" ELSE "gum_return"]
    /\ UNCHANGED <<LLM_MODE, CHAT_SESSIONS, lists>>

\* app.py:33: CHAT_SESSIONS[sid] = []
get_user_messages_create(r) ==
    /\ req[r].pc = "gum_create"
    /\ lists' = Append(lists, <<>>)
    /\ CHAT_SESSIONS' = [CHAT_SESSIONS EXCEPT ![req[r].sid] = Len(lists) + 1]
    /\ req' = [req EXCEPT ![r].pc = "gum_return"]
    /\ UNCHANGED LLM_MODE

\* app.py:34: return CHAT_SESSIONS[sid]; index then renders the page
get_user_messages_return(r) ==
    /\ req[r].pc = "gum_return"
    /\ req' = [req EXCEPT ![r].user_messages = CHAT_SESSIONS[req[r].sid],
                          ![r].pc = IF req[r].op = "index" THEN "done" ELSE "check_prompt",
                          ![r].ret = IF req[r].op = "index" THEN "page" ELSE "none"]
    /\ UNCHANGED <<LLM_MODE, CHAT_SESSIONS, lists>>

\* app.py:100-101: if not prompt: return jsonify({"status": "empty"})
send_message_empty(r) ==
    /\ req[r].pc = "check_prompt"
    /\ req[r].prompt = <<>>
    /\ req' = [req EXCEPT ![r].pc = "done", ![r].ret = "empty"]
    /\ UNCHANGED <<LLM_MODE, CHAT_SESSIONS, lists>>

\* app.py:104: user_messages.append({"role": "user", "content": prompt})
send_message_append(r) ==
    /\ req[r].pc = "check_prompt"
    /\ req[r].prompt # <<>>
    /\ lists' = ListAppend(lists, req[r].user_messages, Message("user", req[r].prompt))
    /\ req' = [req EXCEPT ![r].pc = "get_llm"]
    /\ UNCHANGED <<LLM_MODE, CHAT_SESSIONS>>

\* app.py:107 and 122: llm = get_llm(LLM_MODE); the response streams generate()
send_message_get_llm(r) ==
    /\ req[r].pc = "get_llm"
    /\ req' = [req EXCEPT ![r].llm = get_llm(LLM_MODE), ![r].selMode = LLM_MODE,
                          ![r].pc = "stream", ![r].gen = "new", ![r].ret = "stream"]
    /\ UNCHANGED <<LLM_MODE, CHAT_SESSIONS, lists>>

-----------------------------------------------------------------------------
(* generate, app.py:109-120, driving llm.stream *)

\* a relay that asks the registry at every chunk
RelayProviderLive(r) == get_llm(LLM_MODE)

\* app.py:116: the llm of the enclosing call, not the registry
RelayProvider(r) == req[r].llm

\* response_text = chunk instead of +=
AccumulateOverwrites(response_text, chunk) == chunk

\* app.py:117: response_text += chunk
Accumulate(response_text, chunk) == response_text \o chunk

\* yield response_text instead of yield chunk
YieldAccumulated(rq, chunk, by) ==
    [rq EXCEPT !.response_text = Accumulate(@, chunk),
               !.forwarded = Append(@, Accumulate(rq.response_text, chunk)),
               !.producedBy = @ \cup {by},
               !.atYield = TRUE]

\* app.py:117-118: one round of the loop, for a chunk that provider by yielded
Yield(rq, chunk, by) ==
    [rq EXCEPT !.response_text = Accumulate(@, chunk),
               !.forwarded = Append(@, chunk),
               !.producedBy = @ \cup {by},
               !.atYield = TRUE]

\* the assistant message of app.py:119
AssistantMessage(rq) == Message("assistant", rq.response_text)

\* the assistant message appended only if response_text: is non-empty
CommitUnlessEmpty(r, rq) ==
    /\ lists' = IF rq.response_text = <<>>
                THEN lists
                ELSE ListAppend(lists, rq.user_messages, AssistantMessage(rq))
    /\ req' = [req EXCEPT ![r] = [rq EXCEPT !.pc = "done", !.gen = "end",
                                            !.atYield = FALSE, !.gone = FALSE]]
    /\ UNCHANGED <<LLM_MODE, CHAT_SESSIONS>>

\* the assistant message appended to CHAT_SESSIONS[sid], read again, instead of
\* the list of line 98
CommitToStored(r, rq) ==
    /\ lists' = ListAppend(lists, CHAT_SESSIONS[rq.sid], AssistantMessage(rq))
    /\ req' = [req EXCEPT ![r] = [rq EXCEPT !.pc = "done", !.gen = "end",
                                            !.atYield = FALSE, !.gone = FALSE]]
    /\ UNCHANGED <<LLM_MODE, CHAT_SESSIONS>>

\* app.py:119: llm.stream is exhausted; the request in its last state rq
Commit(r, rq) ==
    /\ lists' = ListAppend(lists, rq.user_messages, AssistantMessage(rq))
    /\ req' = [req EXCEPT ![r] = [rq EXCEPT !.pc = "done", !.gen = "end",
                                            !.atYield = FALSE, !.gone = FALSE]]
    /\ UNCHANGED <<LLM_MODE, CHAT_SESSIONS>>

Streaming(r, classes, gens) ==
    /\ req[r].pc = "stream"
    /\ RelayProvider(r) \in classes
    /\ req[r].gen \in gens

\* the request as the generator is resumed
Resumed(r) == [req[r] EXCEPT !.atYield = FALSE]

Step(r, rq) ==
    /\ req' = [req EXCEPT ![r] = rq]
    /\ UNCHANGED <<LLM_MODE, CHAT_SESSIONS, lists>>

\* llm_mock.py:11-14: the next token of fake_answer.split()
MockLLM_yield(r) ==
    /\ Streaming(r, {"MockLLM"}, {"new", "tokens"})
    /\ LET toks == IF req[r].gen = "new" THEN MockTokens(req[r].prompt)
                                         ELSE req[r].pending
       IN /\ toks # <<>>
          /\ Step(r, Yield([Resumed(r) EXCEPT !.gen = "tokens", !.pending = Tail(toks)],
                           MockChunk(Head(toks)), RelayProvider(r)))

\* llm_mock.py:13: the loop ends
MockLLM_end(r) ==
    /\ Streaming(r, {"MockLLM"}, {"tokens"})
    /\ req[r].pending = <<>>
    /\ Commit(r, Resumed(r))

\* llm_tinyllama.py:90-102, llm_llama3_1_8b.py:89-101: the next line of the response
LocalLLM_read_line(r, line) ==
    /\ Streaming(r, LocalModels, {"new", "lines"})
    /\ req[r].pending = <<>>
    /\ req[r].nread < MaxLines
    /\ LET rq == [Resumed(r) EXCEPT !.gen = "lines", !.nread = @ + 1]
       IN IF line.kind # "data"
          THEN Step(r, rq)
          ELSE IF line.json = "malformed"
          THEN Step(r, [rq EXCEPT !.skipped = TRUE])
          ELSE IF line.json = "nonobject"
          THEN Step(r, [rq EXCEPT !.pc = "crashed", !.gen = "end", !.gone = FALSE])
          ELSE Step(r, [rq EXCEPT !.pending = line.choices,
                                  !.received = @ \o line.choices])

\* llm_tinyllama.py:103-116: the next choice of the frame
LocalLLM_choice(r) ==
    /\ Streaming(r, LocalModels, {"lines"})
    /\ req[r].pending # <<>>
    /\ LET text == Head(req[r].pending)
           rq == [Resumed(r) EXCEPT !.pending = Tail(@)]
       IN IF text = <<>>
          THEN Step(r, rq)
          ELSE IF Contains(text, STOP_SEQUENCE)
          THEN Step(r, Yield([rq EXCEPT !.gen = "stopped", !.pending = <<>>],
                             BeforeStop(text), RelayProvider(r)))
          ELSE Step(r, Yield(rq, text, RelayProvider(r)))

\* llm_tinyllama.py:112-113: resumed after the stopped chunk, stream returns
LocalLLM_return(r) ==
    /\ Streaming(r, LocalModels, {"stopped"})
    /\ Commit(r, Resumed(r))

\* llm_tinyllama.py:94: iter_lines is exhausted
LocalLLM_end(r) ==
    /\ Streaming(r, LocalModels, {"new", "lines"})
    /\ req[r].pending = <<>>
    /\ Commit(r, Resumed(r))

\* a RequestException that no except clause catches: it leaves stream and
\* generate
LocalLLM_fail_raises(r) ==
    /\ Streaming(r, LocalModels, {"new", "lines"})
    /\ req[r].pending = <<>>
    /\ Step(r, [Resumed(r) EXCEPT !.pc = "crashed", !.gen = "end",
                                  !.failed = TRUE, !.gone = FALSE])

\* llm_tinyllama.py:120-121: post, raise_for_status or iter_lines raised a
\* RequestException
LocalLLM_fail(r) ==
    /\ Streaming(r, LocalModels, {"new", "lines"})
    /\ req[r].pending = <<>>
    /\ Commit(r, [Resumed(r) EXCEPT !.failed = TRUE])

\* llm_rag.py:47-52: the next window of the body
RagLLM_read_chunk(r, chunk) ==
    /\ Streaming(r, {"RagLLM"}, {"new", "body"})
    /\ req[r].nread < MaxLines
    /\ LET rq == [Resumed(r) EXCEPT !.gen = "body", !.nread = @ + 1,
                                    !.received = Append(@, chunk)]
       IN IF chunk = <<>>
          THEN Step(r, rq)
          ELSE Step(r, Yield(rq, chunk, RelayProvider(r)))

\* llm_rag.py:47: iter_content is exhausted
RagLLM_end(r) ==
    /\ Streaming(r, {"RagLLM"}, {"new", "body"})
    /\ Commit(r, Resumed(r))

\* a RequestException that only ends the sequence, as the local models do
RagLLM_fail_silent(r) ==
    /\ Streaming(r, {"RagLLM"}, {"new", "body"})
    /\ Commit(r, [Resumed(r) EXCEPT !.failed = TRUE])

\* llm_rag.py:54-56: a RequestException, answered with the error fragment
RagLLM_fail(r) ==
    /\ Streaming(r, {"RagLLM"}, {"new", "body"})
    /\ Step(r, Yield([Resumed(r) EXCEPT !.gen = "rag_error", !.failed = TRUE],
                     RagErrorFragment, RelayProvider(r)))

\* llm_rag.py:58-61: resumed after the error fragment, stream returns
RagLLM_after_error(r) ==
    /\ Streaming(r, {"RagLLM"}, {"rag_error"})
    /\ Commit(r, Resumed(r))

\* generate and llm.stream closed at their yields: response_text and the loops'
\* variables are gone with them; of the history only what upstream had
\* delivered is kept
Closed(rq) ==
    [NoReq EXCEPT !.op = rq.op, !.pc = "closed", !.sid = rq.sid, !.raw = rq.raw,
                  !.prompt = rq.prompt, !.user_messages = rq.user_messages,
                  !.llm = rq.llm, !.selMode = rq.selMode, !.ret = rq.ret,
                  !.nread = rq.nread, !.received = rq.received, !.gen = "end"]

\* The client of a streaming response goes away.  Nothing in send_message
\* watches the connection: generate and llm.stream go on as before.
client_disconnect(r) ==
    /\ req[r].pc = "stream"
    /\ ~req[r].gone
    /\ Step(r, [req[r] EXCEPT !.gone = TRUE])

\* The server's write of a chunk to the client that went away fails, and it
\* closes generate at its yield (GeneratorExit at app.py:118): line 119 never
\* runs, and llm.stream, closed with it, leaves its with block, which closes
\* the upstream response.  A write may still succeed after the client left, so
\* this happens at any yield after it, or at none.
generate_close(r) ==
    /\ req[r].pc = "stream"
    /\ req[r].atYield
    /\ req[r].gone
    /\ Step(r, Closed(req[r]))

-----------------------------------------------------------------------------
(* Specifications *)

Relay(r, lines, texts) ==
    \/ get_user_messages_check(r)
    \/ get_user_messages_create(r)
    \/ get_user_messages_return(r)
    \/ send_message_empty(r)
    \/ send_message_append(r)
    \/ send_message_get_llm(r)
    \/ MockLLM_yield(r)
    \/ MockLLM_end(r)
    \/ \E line \in lines : LocalLLM_read_line(r, line)
    \/ LocalLLM_choice(r)
    \/ LocalLLM_return(r)
    \/ LocalLLM_end(r)
    \/ LocalLLM_fail(r)
    \/ \E chunk \in texts : RagLLM_read_chunk(r, chunk)
    \/ RagLLM_end(r)
    \/ RagLLM_fail(r)
    \/ RagLLM_after_error(r)
    \/ client_disconnect(r)
    \/ generate_close(r)

\* every handler, MaxReqs requests on their threads
Next ==
    \E r \in Reqs :
        \/ \E s \in Sessions : index(r, s)
        \/ \E mode \in ModeInputs : set_mode(r, mode)
        \/ set_mode_return(r)
        \/ \E s \in Sessions : clear_chat(r, s)
        \/ \E s \in Sessions, raw \in FewPrompts : send_message(r, s, raw)
        \/ Relay(r, FewLines, FewTexts)

Spec == Init /\ [][Next]_vars

\* one send_message under any mode, with every prompt and every upstream response
NextRelay ==
    \/ \E s \in Sessions, raw \in RawPrompts : send_message(1, s, raw)
    \/ Relay(1, Lines, Texts)

SpecRelay == InitRelay /\ [][NextRelay]_vars

-----------------------------------------------------------------------------
(* Vocabulary of the properties *)

IsPrefix(p, q) == Len(p) <= Len(q) /\ SubSeq(q, 1, Len(p)) = p

Last(q) == q[Len(q)]

NonEmpty(text) == text # <<>>

HasStop(text) == \E i \in 1..Len(text) : text[i] = NL

\* the upstream fragments of a response: the non-empty texts of its frames or
\* windows, in the order of arrival
Fragments(r) == SelectSeq(req[r].received, NonEmpty)

\* the first fragment the stop marker occurs in (0: none)
FirstStopped(frags) ==
    IF \E k \in 1..Len(frags) : HasStop(frags[k])
    THEN CHOOSE k \in 1..Len(frags) :
             HasStop(frags[k]) /\ \A j \in 1..(k - 1) : ~HasStop(frags[j])
    ELSE 0

\* the text of a fragment before the first occurrence of the marker
BeforeMarker(text) ==
    LET i == CHOOSE i \in 1..Len(text) :
                 text[i] = NL /\ \A j \in 1..(i - 1) : text[j] # NL
    IN SubSeq(text, 1, i - 1)

\* fragments 1..k-1 as they are, then fragment k cut at the marker
CutAtMarker(frags) ==
    LET k == FirstStopped(frags)
    IN SubSeq(frags, 1, k - 1) \o <<BeforeMarker(frags[k])>>

Sending(r) == req[r].op = "send_message"

\* generate ran to its end: llm.stream was exhausted and line 119 ran
Exhausted(r) == Sending(r) /\ req[r].pc = "done" /\ req[r].ret = "stream"

Local(r) == req[r].llm \in LocalModels

-----------------------------------------------------------------------------
(* Claims on the relay, under SpecRelay *)

\* C1: at every moment of a relay the accumulator is the concatenation, in
\* order, of the chunks forwarded so far, and once the output is exhausted the
\* assistant message committed to the conversation has exactly that text.
C1_AccumulatorIsForwarded ==
    \A r \in Reqs :
        /\ req[r].response_text = Concat(req[r].forwarded)
        /\ Exhausted(r) =>
               Last(lists[req[r].user_messages])
                   = Message("assistant", Concat(req[r].forwarded))

\* a local model's relay ended at the stop marker after two chunks
C1_Witness ==
    \E r \in Reqs :
        /\ Exhausted(r) /\ Local(r)
        /\ req[r].forwarded = << <<"a">>, <<"a">> >>
        /\ FirstStopped(Fragments(r)) = 2

\* what a local model's relay has forwarded when the stop marker has arrived:
\* never more than the cut sequence, and exactly it once exhausted
C2_Cut ==
    \A r \in Reqs :
        (Local(r) /\ FirstStopped(Fragments(r)) # 0) =>
            /\ IsPrefix(req[r].forwarded, CutAtMarker(Fragments(r)))
            /\ Exhausted(r) => req[r].forwarded = CutAtMarker(Fragments(r))

\* a step of a relay that has received the stop marker reads nothing more
C2_NoReadAfterStop ==
    \A r \in Reqs :
        (Local(r) /\ FirstStopped(Fragments(r)) # 0) =>
            /\ req'[r].received = req[r].received
            /\ req'[r].nread = req[r].nread

\* C2: when the stop marker first occurs in fragment k, a local model's relay
\* forwards fragments 1..k-1 as they are and fragment k cut before the marker,
\* and ends: at no moment is anything else forwarded, the exhausted relay has
\* forwarded exactly that, and nothing is read from upstream any more.
C2_StopTruncates == []C2_Cut /\ [][C2_NoReadAfterStop]_vars

\* the marker came inside the second of three fragments, with text after it
C2_Witness ==
    \E r \in Reqs :
        /\ Exhausted(r) /\ Local(r)
        /\ Fragments(r) = << <<"a">>, <<"a", NL, "b">>, <<"a">> >>
        /\ req[r].forwarded = << <<"a">>, <<"a">> >>

\* C3: when no upstream fragment contains the stop marker, what is forwarded
\* is, at every moment, a prefix of the upstream fragments, and the whole of
\* them once the upstream sequence has been read to its end: nothing lost,
\* duplicated or reordered.  (A local model whose upstream failed has
\* forwarded every fragment it received; RagLLM's answer to a failed upstream
\* is the subject of C11.)
C3_Lossless ==
    \A r \in Reqs :
        (/\ Sending(r) /\ req[r].llm \in LocalModels \cup {"RagLLM"}
         /\ \A k \in 1..Len(Fragments(r)) : ~HasStop(Fragments(r)[k])
         /\ ~(req[r].llm = "RagLLM" /\ req[r].failed)) =>
            /\ IsPrefix(req[r].forwarded, Fragments(r))
            /\ Exhausted(r) =>
                   /\ req[r].forwarded = Fragments(r)
                   /\ Concat(req[r].forwarded) = Concat(req[r].received)

\* two fragments and an empty text without a marker, read to the end
C3_Witness ==
    \E r \in Reqs :
        /\ Exhausted(r) /\ ~req[r].failed
        /\ Len(req[r].received) > Len(Fragments(r))
        /\ req[r].forwarded = << <<"a">>, <<"a">> >>
        /\ \A k \in 1..Len(Fragments(r)) : ~HasStop(Fragments(r)[k])

\* C10: a relay whose output sequence ended without a single chunk has
\* appended the assistant message all the same, with empty content, after the
\* user message.
C10_EmptyAnswerCommitted ==
    \A r \in Reqs :
        (Exhausted(r) /\ req[r].forwarded = <<>>) =>
            LET conv == lists[req[r].user_messages]
            IN /\ Len(conv) >= 2
               /\ conv[Len(conv)] = Message("assistant", <<>>)
               /\ conv[Len(conv) - 1] = Message("user", req[r].prompt)

\* the upstream of a local model failed before it delivered anything
C10_Witness ==
    \E r \in Reqs :
        /\ Exhausted(r) /\ Local(r)
        /\ req[r].failed /\ req[r].nread = 0
        /\ req[r].forwarded = <<>>
        /\ Last(lists[req[r].user_messages]) = Message("assistant", <<>>)

-----------------------------------------------------------------------------
(* Claims on the handlers and their interleavings, under Spec *)

InFlight(r) == Sending(r) /\ req[r].pc \notin {"done", "closed", "crashed"}

\* C4, as claimed: the step that completes a relay with accumulated text T
\* leaves the session's stored conversation ending with the request's user
\* message and then the assistant message of content T.
C4_LastTwoAtCompletion ==
    [][\A r \in Reqs :
           (req[r].pc = "stream" /\ req'[r].pc = "done") =>
               LET ref == CHAT_SESSIONS'[req[r].sid]
                   conv == IF ref = 0 THEN <<>> ELSE lists'[ref]
               IN /\ Len(conv) >= 2
                  /\ conv[Len(conv) - 1] = Message("user", req[r].prompt)
                  /\ conv[Len(conv)] = Message("assistant", req[r].response_text)]_vars

\* C5, as claimed: in every stored conversation user and assistant messages
\* alternate, each user message followed by the one assistant message of its
\* turn, and once no send_message of the session is in flight no user message
\* is left without its assistant message.
C5_TurnsComplete ==
    \A s \in Sessions :
        LET conv == StoredConversation(s)
        IN /\ \A i \in 1..Len(conv) :
                  conv[i].role = IF i % 2 = 1 THEN "user" ELSE "assistant"
           /\ (\A r \in Reqs : ~(InFlight(r) /\ req[r].sid = s)) => Len(conv) % 2 = 0

\* C6: the step of clear_chat for a session leaves get_user_messages, called
\* next for that session, an empty conversation, whatever it held before.
C6_ClearThenGet ==
    [][\A r \in Reqs, s \in Sessions :
           clear_chat(r, s) => StoredConversation(s)' = <<>>]_vars

\* clear_chat has run for a session whose earlier list holds messages
C6_Witness ==
    \E r \in Reqs, q \in Reqs :
        /\ req[r].op = "clear_chat" /\ req[r].pc = "done"
        /\ Sending(q) /\ req[q].sid = req[r].sid
        /\ req[q].user_messages # 0
        /\ req[q].user_messages < CHAT_SESSIONS[req[r].sid]
        /\ Len(lists[req[q].user_messages]) >= 2
        /\ StoredConversation(req[r].sid) = <<>>

\* C7, as claimed: set_mode with a name of the set returns that name, and with
\* any other name returns the mode that was active when it was called.
C7_SetModeReturns ==
    \A r \in Reqs :
        (req[r].op = "set_mode" /\ req[r].pc = "done") =>
            req[r].ret = IF req[r].mode \in ModeNames THEN req[r].mode
                                                      ELSE req[r].prior

\* C8: every chunk of a relay is produced by the provider of the mode that was
\* active when send_message selected its provider (app.py:107), whatever
\* set_mode does while the relay is in flight.
C8_ProviderCaptured ==
    \A r \in Reqs :
        /\ Sending(r) /\ req[r].llm # "None" => req[r].llm = get_llm(req[r].selMode)
        /\ req[r].producedBy \subseteq {get_llm(req[r].selMode)}

\* a relay goes on with its provider after a set_mode selected another one
C8_Witness ==
    \E r \in Reqs, q \in Reqs :
        /\ Sending(r) /\ req[r].pc = "stream"
        /\ Len(req[r].forwarded) >= 2
        /\ req[q].op = "set_mode" /\ req[q].pc = "done"
        /\ req[q].prior = req[r].selMode
        /\ req[q].mode \in ModeNames
        /\ get_llm(LLM_MODE) # req[r].llm

Blank(raw) == \A i \in 1..Len(raw) : raw[i] \in Whitespace

\* a blank send_message stays before line 104, without provider or chunk
C9_BlankState ==
    \A r \in Reqs :
        (Sending(r) /\ Blank(req[r].raw)) =>
            /\ req[r].pc \in {"gum_check", "gum_create", "gum_return",
                              "check_prompt", "done"}
            /\ req[r].llm = "None"
            /\ req[r].forwarded = <<>>
            /\ req[r].pc = "done" => req[r].ret = "empty"

\* a step of a blank send_message leaves the content of every list as it was
C9_BlankStep ==
    \A r \in Reqs :
        (Sending(r) /\ Blank(req[r].raw) /\ req'[r] # req[r]) =>
            \A ref \in 1..Len(lists) : lists'[ref] = lists[ref]

\* C9: a send_message whose prompt is empty or of whitespace only selects no
\* provider, forwards nothing and returns "empty", and no step of it changes
\* the content of any conversation: no user and no assistant message.
C9_EmptyPrompt == []C9_BlankState /\ [][C9_BlankStep]_vars

\* a whitespace-only prompt was answered "empty"; its session's conversation
\* was created and is empty
C9_Witness ==
    \E r \in Reqs :
        /\ Sending(r) /\ req[r].raw = <<SP>>
        /\ req[r].pc = "done" /\ req[r].ret = "empty"
        /\ req[r].user_messages # 0
        /\ lists[req[r].user_messages] = <<>>

-----------------------------------------------------------------------------
(* Claims on the providers, under SpecRelay *)

Rag(r) == req[r].llm = "RagLLM"

\* text occurs in whole, as consecutive characters
Occurs(part, whole) ==
    \E i \in 0..(Len(whole) - Len(part)) : SubSeq(whole, i + 1, i + Len(part)) = part

\* C11: once the upstream of the retrieval-augmented provider has failed, what
\* was forwarded is every fragment yielded before the failure and then one
\* fragment more, the last, which contains the error description; no other
\* forwarded fragment is a diagnostic, and the exhausted relay has committed
\* the fragments' text with the failure text at its end.
C11_RagErrorInline ==
    \A r \in Reqs :
        (Rag(r) /\ req[r].failed) =>
            /\ req[r].forwarded = Fragments(r) \o <<RagErrorFragment>>
            /\ Occurs(ErrorDescription, Last(req[r].forwarded))
            /\ \A k \in 1..(Len(req[r].forwarded) - 1) :
                   req[r].forwarded[k] # RagErrorFragment
            /\ Exhausted(r) =>
                   Last(lists[req[r].user_messages])
                       = Message("assistant",
                                 Concat(Fragments(r)) \o RagErrorFragment)

\* the upstream failed after two fragments, and the relay went to its end
C11_Witness ==
    \E r \in Reqs :
        /\ Exhausted(r) /\ Rag(r) /\ req[r].failed
        /\ Len(Fragments(r)) = 2
        /\ Len(req[r].forwarded) = 3
        /\ Last(req[r].forwarded) = RagErrorFragment

NoStop(frags) == \A k \in 1..Len(frags) : ~HasStop(frags[k])

\* C12, as claimed: no data frame ends a local model's relay.  Whatever the
\* frames' payloads were, the relay is still reading or has ended in order,
\* and (the stop marker aside) it has forwarded a prefix of the fragments of
\* the well-formed frames, all of them once the lines are exhausted.
C12_UnparsableFrameSkipped ==
    \A r \in Reqs :
        (Sending(r) /\ Local(r)) =>
            /\ req[r].pc # "crashed"
            /\ NoStop(Fragments(r)) =>
                   /\ req[r].pc # "closed" => IsPrefix(req[r].forwarded, Fragments(r))
                   /\ Exhausted(r) => req[r].forwarded = Fragments(r)

Mock(r) == req[r].llm = "MockLLM"

Hi == <<"h", "i">>

\* the tokens of the scenario: [Mock] You said: hi This is a mock response.
HiTokens ==
    << <<"[", "M", "o", "c", "k", "]">>, <<"Y", "o", "u">>,
       <<"s", "a", "i", "d", ":">>, Hi, <<"T", "h", "i", "s">>, <<"i", "s">>,
       <<"a">>, <<"m", "o", "c", "k">>,
       <<"r", "e", "s", "p", "o", "n", "s", "e", ".">> >>

\* each token followed by a space
HiChunks == [k \in 1..Len(HiTokens) |-> HiTokens[k] \o <<SP>>]

\* "[Mock] You said: hi\nThis is a mock response.\n"
HiContentClaimed ==
    Concat(<<HiTokens[1], <<SP>>, HiTokens[2], <<SP>>, HiTokens[3], <<SP>>,
             HiTokens[4], <<NL>>, HiTokens[5], <<SP>>, HiTokens[6], <<SP>>,
             HiTokens[7], <<SP>>, HiTokens[8], <<SP>>, HiTokens[9], <<NL>> >>)

\* "[Mock] You said: hi This is a mock response. "
HiContentSpaced == Concat(HiChunks)

HiAnswered(r) == Exhausted(r) /\ Mock(r) /\ req[r].prompt = Hi

\* C13, as claimed: the prompt "hi" to the mock provider is forwarded as the
\* nine tokens, each followed by a space, and the committed assistant message
\* is "[Mock] You said: hi\nThis is a mock response.\n", the newline kept.
C13_HiNewlinePreserved ==
    \A r \in Reqs :
        HiAnswered(r) =>
            /\ req[r].forwarded = HiChunks
            /\ Last(lists[req[r].user_messages])
                   = Message("assistant", HiContentClaimed)

\* C13, amended: the prompt "hi" to the mock provider is forwarded as the
\* nine tokens, each followed by a space, and the committed assistant message
\* is those chunks joined, "[Mock] You said: hi This is a mock response. ":
\* the newline of the source string is not in it.
C13_HiTokensSpaced ==
    \A r \in Reqs :
        HiAnswered(r) =>
            /\ req[r].forwarded = HiChunks
            /\ Last(lists[req[r].user_messages])
                   = Message("assistant", HiContentSpaced)
            /\ ~Contains(Last(lists[req[r].user_messages]).content, NL)

\* " hi\n" was sent, stripped to "hi" and answered by the mock provider
C13_Witness ==
    \E r \in Reqs :
        /\ HiAnswered(r)
        /\ req[r].raw = <<SP, "h", "i", NL>>
        /\ Len(req[r].forwarded) = 9

\* C16: a local model's relay whose upstream call failed (post,
\* raise_for_status or a read of the stream) has ended in order: no exception
\* left the provider, what it forwarded is the fragments received before the
\* failure and nothing else, no error fragment among them, and the
\* conversation ends with the user message and the assistant message of
\* that, possibly partial, text.
C16_LocalFailureSilent ==
    \A r \in Reqs :
        (Sending(r) /\ Local(r) /\ req[r].failed) =>
            /\ Exhausted(r)
            /\ req[r].forwarded = Fragments(r)
            /\ \A k \in 1..Len(req[r].forwarded) :
                   ~Occurs(ErrorDescription, req[r].forwarded[k])
            /\ LET conv == lists[req[r].user_messages]
               IN /\ Len(conv) >= 2
                  /\ conv[Len(conv)] = Message("assistant", Concat(Fragments(r)))
                  /\ conv[Len(conv) - 1] = Message("user", req[r].prompt)

\* the upstream of a local model failed after two fragments were forwarded
C16_Witness ==
    \E r \in Reqs :
        /\ Exhausted(r) /\ Local(r) /\ req[r].failed
        /\ req[r].forwarded = << <<"a">>, <<"a">> >>
        /\ Last(lists[req[r].user_messages]).content = <<"a", "a">>

\* C17, as claimed: every chunk a provider yielded and generate forwarded is
\* a non-empty string, the chunk cut at a stop marker included.
C17_NoEmptyChunk ==
    \A r \in Reqs :
        \A k \in 1..Len(req[r].forwarded) : req[r].forwarded[k] # <<>>

\* C15, as claimed: once the client of a streaming response has gone, no step
\* of its relay reads a line or window from upstream, adds to the accumulator
\* or forwards a chunk.
C15_NothingAfterDisconnect ==
    [][\A r \in Reqs :
           req[r].gone =>
               /\ req'[r].nread = req[r].nread
               /\ req'[r].received = req[r].received
               /\ Len(req'[r].response_text) <= Len(req[r].response_text)
               /\ Len(req'[r].forwarded) <= Len(req[r].forwarded)]_vars

-----------------------------------------------------------------------------
(* Claims on the shared resources, under Spec *)

Cleared(s) == \E c \in Reqs : req[c].op = "clear_chat" /\ req[c].sid = s

\* the messages of a conversation
Messages(conv) == {conv[i] : i \in 1..Len(conv)}

\* C14, as claimed: the requests of one session, run concurrently and before
\* any clear_chat of it, all hold the conversation the store holds for the
\* session, and every message one of them appended is in that stored
\* conversation.
C14_OneConversation ==
    \A s \in Sessions :
        ~Cleared(s) =>
            \A r \in Reqs :
                (req[r].sid = s /\ req[r].user_messages # 0) =>
                    /\ req[r].user_messages = CHAT_SESSIONS[s]
                    /\ Messages(lists[req[r].user_messages])
                           \subseteq Messages(StoredConversation(s))

\* the step of a set_mode that posts a name of the set makes it the active mode
C18_SetModeActivates ==
    \A q \in Reqs, m \in ModeNames : set_mode(q, m) => LLM_MODE' = m

\* no other step changes the active mode: not a set_mode with another name,
\* not a step of any session's index, clear_chat or send_message
C18_OnlySetModeChanges ==
    LLM_MODE' # LLM_MODE => \E q \in Reqs, m \in ModeNames : set_mode(q, m)

\* a send_message of any session takes the provider of the active mode when
\* it starts (app.py:107)
C18_StartTakesActive ==
    \A r \in Reqs :
        send_message_get_llm(r) =>
            /\ req'[r].selMode = LLM_MODE
            /\ req'[r].llm = get_llm(LLM_MODE)

\* C18: the active mode is one value of the process.  A successful set_mode(m)
\* of any client makes m the active mode, it stays m until the next successful
\* set_mode, and every send_message that starts meanwhile (selects its
\* provider, app.py:107), whatever its session, is given the provider of m.
C18_ModeProcessWide ==
    [][C18_SetModeActivates /\ C18_OnlySetModeChanges /\ C18_StartTakesActive]_vars

\* after set_mode("rag") returned, a send_message is being answered by RagLLM
C18_Witness ==
    \E q \in Reqs, r \in Reqs :
        /\ req[q].op = "set_mode" /\ req[q].pc = "done"
        /\ req[q].mode = "rag" /\ req[q].prior = "mock"
        /\ Sending(r) /\ req[r].selMode = "rag"
        /\ req[r].producedBy = {"RagLLM"}

\* the step is one of request r, a send_message or clear_chat of session a
StepOf(r, a) ==
    /\ req'[r] # req[r]
    /\ req'[r].op \in {"send_message", "clear_chat"}
    /\ req'[r].sid = a

\* C19: a step of a send_message or clear_chat of session a, at any point of
\* any interleaving, leaves the conversation stored for every other session b
\* as it was: the same list object, holding the same messages.
C19_OtherSessionsUntouched ==
    [][\A r \in Reqs, a \in Sessions, b \in Sessions :
           (StepOf(r, a) /\ b # a) =>
               /\ CHAT_SESSIONS'[b] = CHAT_SESSIONS[b]
               /\ StoredConversation(b)' = StoredConversation(b)]_vars

\* a clear_chat of one session ran after the conversation of another was
\* created, which still holds its messages
C19_Witness ==
    \E r \in Reqs, q \in Reqs :
        /\ req[r].op = "clear_chat" /\ req[r].pc = "done"
        /\ Sending(q) /\ req[q].sid # req[r].sid
        /\ CHAT_SESSIONS[req[q].sid] # 0
        /\ CHAT_SESSIONS[req[r].sid] > CHAT_SESSIONS[req[q].sid]
        /\ Len(StoredConversation(req[q].sid)) >= 1

\* the relay holds the list of line 98
Holding(r) == InFlight(r) /\ req[r].user_messages # 0

\* a clear_chat of the session of a relay in flight leaves the relay its list,
\* with its messages, and binds another one in the store
C20_ClearLeavesCaptured ==
    \A c \in Reqs, r \in Reqs, s \in Sessions :
        (clear_chat(c, s) /\ Holding(r) /\ req[r].sid = s) =>
            /\ req'[r].user_messages = req[r].user_messages
            /\ lists'[req[r].user_messages] = lists[req[r].user_messages]
            /\ CHAT_SESSIONS'[s] # req[r].user_messages

\* the step that completes a relay whose session was cleared meanwhile appends
\* the assistant message to the list of line 98 and leaves the session's
\* stored conversation as it was
C20_CompletesOnCaptured ==
    \A r \in Reqs :
        (/\ req[r].pc = "stream" /\ req'[r].pc = "done"
         /\ Cleared(req[r].sid)
         /\ CHAT_SESSIONS[req[r].sid] # req[r].user_messages) =>
            /\ lists'[req[r].user_messages]
                   = Append(lists[req[r].user_messages],
                            Message("assistant", req[r].response_text))
            /\ CHAT_SESSIONS' = CHAT_SESSIONS
            /\ StoredConversation(req[r].sid)' = StoredConversation(req[r].sid)

====
